---------------------------- MODULE Spec2Model ----------------------------
(***************************************************************************)
(* The Double Ratchet session engine of state.go: two sessions, A (built   *)
(* with WithRemoteKey) and B (built without), the messages each has        *)
(* produced, and the calls RatchetEncrypt / RatchetDecrypt on them.        *)
(*                                                                         *)
(* The cryptographic suite (Crypto, DHPair, MessageHeader.EncodeWithAD) is *)
(* not part of state.go; it is modelled symbolically from its contract:    *)
(* the KDFs are injective with disjoint ranges, DH is symmetric in the two *)
(* key pairs, GenerateDH returns a pair never seen before (or fails), and  *)
(* the AEAD opens a ciphertext only under the key and the associated data  *)
(* it was sealed with.                                                     *)
(***************************************************************************)
EXTENDS Integers, Sequences, FiniteSets, TLC

VARIABLES
    sess,      \* sess[p]: the live state struct of party p
    out,       \* out[p]: the Messages returned by p's RatchetEncrypt, in call order
    encs,      \* encs[p][i]: the arguments of p's i-th RatchetEncrypt, and done[p] at that call
    done,      \* done[p]: the Messages p's RatchetDecrypt has returned a plaintext for
    maxNr,     \* maxNr[p][d]: highest Nr a committed call of p reached while DHr = d (-1: never)
    nextKey,   \* the next key pair GenerateDH hands out
    dlv,       \* dlv[p]: indices of out[Peer(p)] already handed to p (delivery scenarios)
    forged,    \* whether the last call was on a message no session produced
    last       \* the last call: which, by whom, on what, and what it returned

vars == <<sess, out, encs, done, maxNr, nextKey, dlv, forged, last>>

(***************************************************************************)
(* Bounds of the model.                                                    *)
(***************************************************************************)
MaxSkip == 2        \* the value given to WithMaxSkip for both sessions
MaxSend == 3        \* RatchetEncrypt calls, both sessions together

Party == {"A", "B"}
Peer(p) == IF p = "A" THEN "B" ELSE "A"

Plaintexts == {"hello", "hi"}
ADs == {"", "ad"}

(***************************************************************************)
(* Key pairs are numbered; a pair's public key is its number.              *)
(***************************************************************************)
ZeroKey == 0
InitKeyB == ZeroKey + 1
InitKeyA == InitKeyB + 1
EveKey == InitKeyA + 1          \* a public key no session ever generates
FirstFreshKey == EveKey + 1
DefaultMaxSkip == 1000

(***************************************************************************)
(* Crypto: the symbolic suite.  A 32-byte secret is the record of how it   *)
(* was derived: h, the DH outputs mixed into the root so far; out, which   *)
(* output of kdf_rk it is; n, the kdf_ck steps applied; mk, whether it is  *)
(* the message-key output of the last step.                                *)
(***************************************************************************)
SharedKey == [h |-> << >>, out |-> "rk", n |-> 0, mk |-> FALSE]

PublicKey(pair) == pair

DH(pair, pub) == {pair, pub}

KdfRK(rk, dhOut) ==
    [rk |-> [h |-> Append(rk.h, dhOut), out |-> "rk", n |-> 0, mk |-> FALSE],
     ck |-> [h |-> Append(rk.h, dhOut), out |-> "ck", n |-> 0, mk |-> FALSE]]

KdfCK(ck) ==
    [ck |-> [ck EXCEPT !.n = @ + 1],
     mk |-> [ck EXCEPT !.mk = TRUE]]

EncodeWithAD(h, ad) == <<h.DH, h.N, h.PN, ad>>

Encrypt(mk, plaintext, ad) == [mk |-> mk, pt |-> plaintext, ad |-> ad, tag |-> TRUE]

\* Decrypt returns the plaintext, or fails: opens is its err == nil.
DecryptOpens(mk, ciphertext, ad) ==
    ciphertext.tag /\ ciphertext.mk = mk /\ ciphertext.ad = ad

DecryptPlain(ciphertext) == ciphertext.pt

(***************************************************************************)
(* MkSkipped: a map from skippedKey(dh, n) to a message key.               *)
(***************************************************************************)
EmptyMap == [k \in {} |-> SharedKey]

MapPut(f, k, v) == [x \in (DOMAIN f) \cup {k} |-> IF x = k THEN v ELSE f[x]]

MapDelete(f, k) == [x \in (DOMAIN f) \ {k} |-> f[x]]

\* fmt.Sprintf("%s%d", hex(dh), n): the hex of 32 bytes is always 64
\* characters, so the string determines both dh and n.
skippedKey(dh, n) == <<dh, n>>

(***************************************************************************)
(* Construction.                                                           *)
(***************************************************************************)
New_ReceivingChainUnseeded(sharedKey, dhs) ==
    [RK |-> sharedKey, DHr |-> ZeroKey, DHs |-> dhs,
     CKs |-> sharedKey, CKr |-> [sharedKey EXCEPT !.out = "zero"],
     Ns |-> 0, Nr |-> 0, PN |-> 0,
     MkSkipped |-> EmptyMap, MaxSkip |-> DefaultMaxSkip]

New(sharedKey, dhs) ==
    [RK |-> sharedKey, DHr |-> ZeroKey, DHs |-> dhs,
     CKs |-> sharedKey, CKr |-> sharedKey,
     Ns |-> 0, Nr |-> 0, PN |-> 0,
     MkSkipped |-> EmptyMap, MaxSkip |-> DefaultMaxSkip]

WithRemoteKey_NoKdf(s, dhRemotePubKey) == [s EXCEPT !.DHr = dhRemotePubKey]

WithRemoteKey(s, dhRemotePubKey) ==
    LET k == KdfRK(s.RK, DH(s.DHs, dhRemotePubKey))
    IN  [s EXCEPT !.DHr = dhRemotePubKey, !.RK = k.rk, !.CKs = k.ck]

WithMaxSkip(s, maxSkip) == [s EXCEPT !.MaxSkip = maxSkip]

(***************************************************************************)
(* RatchetEncrypt: one kdf_ck step on the sending chain, then the header   *)
(* and the ciphertext.  Returns the new state and the Message.             *)
(***************************************************************************)
RatchetEncrypt_CountsFirst(s, plaintext, ad) ==
    LET k == KdfCK(s.CKs)
        h == [DH |-> PublicKey(s.DHs), N |-> s.Ns + 1, PN |-> s.PN]
    IN  [s |-> [s EXCEPT !.CKs = k.ck, !.Ns = @ + 1],
         m |-> [Header |-> h, Ciphertext |-> Encrypt(k.mk, plaintext, EncodeWithAD(h, ad))]]

RatchetEncrypt(s, plaintext, ad) ==
    LET k == KdfCK(s.CKs)
        h == [DH |-> PublicKey(s.DHs), N |-> s.Ns, PN |-> s.PN]
    IN  [s |-> [s EXCEPT !.CKs = k.ck, !.Ns = @ + 1],
         m |-> [Header |-> h, Ciphertext |-> Encrypt(k.mk, plaintext, EncodeWithAD(h, ad))]]

(***************************************************************************)
(* trySkippedMessageKeys: found tells whether MkSkipped held a key for the *)
(* header; err whether the AEAD failed under it.                           *)
(***************************************************************************)
trySkippedMessageKeys_KeepsKey(s, m, ad) ==
    LET k == skippedKey(m.Header.DH, m.Header.N)
    IN  IF k \in DOMAIN s.MkSkipped
        THEN IF DecryptOpens(s.MkSkipped[k], m.Ciphertext, EncodeWithAD(m.Header, ad))
             THEN [s |-> s, found |-> TRUE, err |-> FALSE]
             ELSE [s |-> s, found |-> TRUE, err |-> TRUE]
        ELSE [s |-> s, found |-> FALSE, err |-> FALSE]

trySkippedMessageKeys_IgnoresAD(s, m, ad) ==
    LET k == skippedKey(m.Header.DH, m.Header.N)
    IN  IF k \in DOMAIN s.MkSkipped
        THEN IF DecryptOpens(s.MkSkipped[k], m.Ciphertext, m.Ciphertext.ad)
             THEN [s |-> [s EXCEPT !.MkSkipped = MapDelete(@, k)],
                   found |-> TRUE, err |-> FALSE]
             ELSE [s |-> s, found |-> TRUE, err |-> TRUE]
        ELSE [s |-> s, found |-> FALSE, err |-> FALSE]

trySkippedMessageKeys_ClearsAll(s, m, ad) ==
    LET k == skippedKey(m.Header.DH, m.Header.N)
    IN  IF k \in DOMAIN s.MkSkipped
        THEN IF DecryptOpens(s.MkSkipped[k], m.Ciphertext, EncodeWithAD(m.Header, ad))
             THEN [s |-> [s EXCEPT !.MkSkipped = EmptyMap],
                   found |-> TRUE, err |-> FALSE]
             ELSE [s |-> s, found |-> TRUE, err |-> TRUE]
        ELSE [s |-> s, found |-> FALSE, err |-> FALSE]

trySkippedMessageKeys(s, m, ad) ==
    LET k == skippedKey(m.Header.DH, m.Header.N)
    IN  IF k \in DOMAIN s.MkSkipped
        THEN IF DecryptOpens(s.MkSkipped[k], m.Ciphertext, EncodeWithAD(m.Header, ad))
             THEN [s |-> [s EXCEPT !.MkSkipped = MapDelete(@, k)],
                   found |-> TRUE, err |-> FALSE]
             ELSE [s |-> s, found |-> TRUE, err |-> TRUE]
        ELSE [s |-> s, found |-> FALSE, err |-> FALSE]

(***************************************************************************)
(* skipMessageKeys: the limit test, then the loop of lines 188-193.        *)
(* n counts the keys the loop stored.                                      *)
(***************************************************************************)
RECURSIVE skipLoop(_, _)
skipLoop(s, until) ==
    IF s.Nr < until
    THEN LET k == KdfCK(s.CKr)
         IN  skipLoop([s EXCEPT !.CKr = k.ck,
                                !.MkSkipped = MapPut(@, skippedKey(s.DHr, s.Nr), k.mk),
                                !.Nr = @ + 1],
                      until)
    ELSE s

skipMessageKeys_LimitOffByOne(s, until) ==
    IF s.Nr + s.MaxSkip + 1 < until
    THEN [s |-> s, err |-> TRUE, n |-> 0]
    ELSE [s |-> skipLoop(s, until), err |-> FALSE,
          n |-> skipLoop(s, until).Nr - s.Nr]

skipMessageKeys_RejectsAtLimit(s, until) ==
    IF s.Nr + s.MaxSkip <= until
    THEN [s |-> s, err |-> TRUE, n |-> 0]
    ELSE [s |-> skipLoop(s, until), err |-> FALSE,
          n |-> skipLoop(s, until).Nr - s.Nr]

skipMessageKeys(s, until) ==
    IF s.Nr + s.MaxSkip < until
    THEN [s |-> s, err |-> TRUE, n |-> 0]
    ELSE [s |-> skipLoop(s, until), err |-> FALSE,
          n |-> skipLoop(s, until).Nr - s.Nr]

(***************************************************************************)
(* dhRatchet: newPair is what GenerateDH returns when genOk; otherwise     *)
(* GenerateDH fails and the step returns its error after lines 201-206.    *)
(***************************************************************************)
dhRatchet_KeepsNs(s, mh, newPair, genOk) ==
    LET s1 == [s EXCEPT !.PN = s.Ns, !.Nr = 0, !.DHr = mh.DH]
        k1 == KdfRK(s1.RK, DH(s1.DHs, s1.DHr))
        s2 == [s1 EXCEPT !.RK = k1.rk, !.CKr = k1.ck]
    IN  IF ~genOk
        THEN [s |-> [s2 EXCEPT !.DHs = ZeroKey], err |-> TRUE]
        ELSE LET s3 == [s2 EXCEPT !.DHs = newPair]
                 k2 == KdfRK(s3.RK, DH(s3.DHs, s3.DHr))
             IN  [s |-> [s3 EXCEPT !.RK = k2.rk, !.CKs = k2.ck], err |-> FALSE]

dhRatchet_KeepsPN(s, mh, newPair, genOk) ==
    LET s1 == [s EXCEPT !.Ns = 0, !.Nr = 0, !.DHr = mh.DH]
        k1 == KdfRK(s1.RK, DH(s1.DHs, s1.DHr))
        s2 == [s1 EXCEPT !.RK = k1.rk, !.CKr = k1.ck]
    IN  IF ~genOk
        THEN [s |-> [s2 EXCEPT !.DHs = ZeroKey], err |-> TRUE]
        ELSE LET s3 == [s2 EXCEPT !.DHs = newPair]
                 k2 == KdfRK(s3.RK, DH(s3.DHs, s3.DHr))
             IN  [s |-> [s3 EXCEPT !.RK = k2.rk, !.CKs = k2.ck], err |-> FALSE]

dhRatchet_OneKdf(s, mh, newPair, genOk) ==
    LET s1 == [s EXCEPT !.PN = s.Ns, !.Ns = 0, !.Nr = 0, !.DHr = mh.DH]
        k1 == KdfRK(s1.RK, DH(s1.DHs, s1.DHr))
        s2 == [s1 EXCEPT !.RK = k1.rk, !.CKr = k1.ck]
    IN  IF ~genOk
        THEN [s |-> [s2 EXCEPT !.DHs = ZeroKey], err |-> TRUE]
        ELSE [s |-> [s2 EXCEPT !.DHs = newPair], err |-> FALSE]

dhRatchet(s, mh, newPair, genOk) ==
    LET s1 == [s EXCEPT !.PN = s.Ns, !.Ns = 0, !.Nr = 0, !.DHr = mh.DH]
        k1 == KdfRK(s1.RK, DH(s1.DHs, s1.DHr))
        s2 == [s1 EXCEPT !.RK = k1.rk, !.CKr = k1.ck]
    IN  IF ~genOk
        THEN [s |-> [s2 EXCEPT !.DHs = ZeroKey], err |-> TRUE]
        ELSE LET s3 == [s2 EXCEPT !.DHs = newPair]
                 k2 == KdfRK(s3.RK, DH(s3.DHs, s3.DHr))
             IN  [s |-> [s3 EXCEPT !.RK = k2.rk, !.CKs = k2.ck], err |-> FALSE]

(***************************************************************************)
(* RatchetDecrypt.  "var sc state = *s" copies the struct; MkSkipped is a  *)
(* Go map, so s and sc hold the same map: what the callees write to        *)
(* sc.MkSkipped is written to s.MkSkipped.  AfterReturn is the live state  *)
(* when the call returns without "*s = sc": the fields of s, and the map   *)
(* as sc left it.                                                          *)
(*                                                                         *)
(* The result: s, the live state after the call; ok, whether a plaintext   *)
(* was returned; pt, the plaintext; err, which return was taken; nPrev and *)
(* nCur, the keys stored by the skip to header.PN and by the skip to       *)
(* header.N.  (Plaintexts are taken non-nil: line 132 then tells a key     *)
(* found from a key not found.)                                            *)
(***************************************************************************)
AfterReturn_KeepsCopy(s, sc) == sc

AfterReturn(s, sc) == [s EXCEPT !.MkSkipped = sc.MkSkipped]

Returned(s, ok, pt, err, nPrev, nCur) ==
    [s |-> s, ok |-> ok, pt |-> pt, err |-> err, nPrev |-> nPrev, nCur |-> nCur]

NoPlain == "<nil>"

RatchetDecrypt(s, m, ad, newPair, genOk) ==
    LET sc == s
        t  == trySkippedMessageKeys(sc, m, ad)
    IN
    IF t.err THEN Returned(AfterReturn(s, t.s), FALSE, NoPlain, "skipped", 0, 0)
    ELSE IF t.found
    THEN Returned(AfterReturn(s, t.s), TRUE, DecryptPlain(m.Ciphertext), "nil-skipped", 0, 0)
    ELSE
    LET newKey == m.Header.DH # t.s.DHr
        sk1 == IF newKey THEN skipMessageKeys(t.s, m.Header.PN)
                         ELSE [s |-> t.s, err |-> FALSE, n |-> 0]
    IN
    IF sk1.err THEN Returned(AfterReturn(s, sk1.s), FALSE, NoPlain, "skip-previous", 0, 0)
    ELSE
    LET r == IF newKey THEN dhRatchet(sk1.s, m.Header, newPair, genOk)
                       ELSE [s |-> sk1.s, err |-> FALSE]
    IN
    IF r.err THEN Returned(AfterReturn(s, r.s), FALSE, NoPlain, "ratchet", sk1.n, 0)
    ELSE
    LET sk2 == skipMessageKeys(r.s, m.Header.N)
    IN
    IF sk2.err THEN Returned(AfterReturn(s, sk2.s), FALSE, NoPlain, "skip-current", sk1.n, 0)
    ELSE
    LET k   == KdfCK(sk2.s.CKr)
        sc2 == [sk2.s EXCEPT !.CKr = k.ck, !.Nr = @ + 1]
    IN
    IF ~DecryptOpens(k.mk, m.Ciphertext, EncodeWithAD(m.Header, ad))
    THEN Returned(AfterReturn(s, sc2), FALSE, NoPlain, "decrypt", sk1.n, sk2.n)
    ELSE Returned(sc2, TRUE, DecryptPlain(m.Ciphertext), "nil", sk1.n, sk2.n)

(***************************************************************************)
(* The two sessions and their callers.                                     *)
(***************************************************************************)
KeyIds == ZeroKey .. (FirstFreshKey + 2 * MaxSend)

Garbage == [mk |-> SharedKey, pt |-> NoPlain, ad |-> << >>, tag |-> FALSE]
NoMsg == [Header |-> [DH |-> ZeroKey, N |-> 0, PN |-> 0], Ciphertext |-> Garbage]

Range(q) == {q[i] : i \in 1 .. Len(q)}

Max(a, b) == IF a < b THEN b ELSE a

Call(op, p, m, ad, r, pre, dup) ==
    [op |-> op, p |-> p, msg |-> m, ad |-> ad, ok |-> r.ok, pt |-> r.pt,
     err |-> r.err, nPrev |-> r.nPrev, nCur |-> r.nCur, pre |-> pre, dup |-> dup]

Init ==
    /\ sess = [p \in Party |->
                 IF p = "A"
                 THEN WithMaxSkip(WithRemoteKey(New(SharedKey, InitKeyA), PublicKey(InitKeyB)),
                                  MaxSkip)
                 ELSE WithMaxSkip(New(SharedKey, InitKeyB), MaxSkip)]
    /\ out = [p \in Party |-> << >>]
    /\ encs = [p \in Party |-> << >>]
    /\ done = [p \in Party |-> {}]
    /\ maxNr = [p \in Party |-> [d \in KeyIds |->
                 IF (p = "A" /\ d = InitKeyB) \/ (p = "B" /\ d = ZeroKey) THEN 0 ELSE -1]]
    /\ nextKey = FirstFreshKey
    /\ dlv = [p \in Party |-> {}]
    /\ forged = FALSE
    /\ last = Call("new", "A", NoMsg, "",
                   Returned(SharedKey, TRUE, NoPlain, "nil", 0, 0), SharedKey, FALSE)

\* p calls RatchetEncrypt(plaintext, ad).
Send(p, plaintext, ad) ==
    /\ Len(out[p]) + Len(out[Peer(p)]) < MaxSend
    /\ LET r == RatchetEncrypt(sess[p], plaintext, ad)
       IN  /\ sess' = [sess EXCEPT ![p] = r.s]
           /\ out' = [out EXCEPT ![p] = Append(@, r.m)]
           /\ encs' = [encs EXCEPT ![p] = Append(@, [plaintext |-> plaintext, ad |-> ad,
                                                     seen |-> done[p]])]
           /\ last' = Call("enc", p, r.m, ad,
                           Returned(r.s, TRUE, plaintext, "nil", 0, 0), sess[p], FALSE)
    /\ UNCHANGED <<done, maxNr, nextKey, dlv, forged>>

\* p calls RatchetDecrypt(m, ad); GenerateDH, if reached, works iff genOk.
Decrypt(p, m, ad, genOk) ==
    LET r == RatchetDecrypt(sess[p], m, ad, nextKey, genOk)
    IN  /\ sess' = [sess EXCEPT ![p] = r.s]
        /\ done' = [done EXCEPT ![p] = IF r.ok THEN @ \cup {m} ELSE @]
        /\ maxNr' = IF r.ok /\ r.s.DHr # sess[p].DHr
                    THEN [maxNr EXCEPT ![p][sess[p].DHr] = Max(@, sess[p].Nr + r.nPrev),
                                       ![p][r.s.DHr] = Max(@, r.s.Nr)]
                    ELSE [maxNr EXCEPT ![p][r.s.DHr] = Max(@, r.s.Nr)]
        /\ nextKey' = IF r.s.DHs = nextKey THEN nextKey + 1 ELSE nextKey
        /\ last' = Call("dec", p, m, ad, r, sess[p], m \in done[p])
        /\ UNCHANGED <<out, encs>>

\* The network hands p a message its peer produced: in any order, any
\* number of times or never, with any associated data.
Receive(p, m, ad, genOk) ==
    /\ m \in Range(out[Peer(p)])
    /\ Decrypt(p, m, ad, genOk)
    /\ UNCHANGED <<dlv, forged>>

\* The same with a bit of the ciphertext flipped on the way.
Tamper(m) == [m EXCEPT !.Ciphertext.tag = FALSE]

ReceiveTampered(p, m, ad, genOk) ==
    /\ m \in Range(out[Peer(p)])
    /\ Decrypt(p, Tamper(m), ad, genOk)
    /\ UNCHANGED <<dlv, forged>>

\* A message no session produced: any header, over bytes that open under no key.
ForgedDH(p) == {sess[p].DHr, EveKey} \cup {m.Header.DH : m \in Range(out[Peer(p)])}
ForgedN(p) == 0 .. (sess[p].Nr + MaxSkip + 1)

ReceiveForged(p, h, ad) ==
    /\ Decrypt(p, [Header |-> h, Ciphertext |-> Garbage], ad, TRUE)
    /\ forged' = TRUE
    /\ UNCHANGED dlv

SendStep == \E p \in Party : Send(p, "hello", "")

ReceiveStep ==
    \E p \in Party, ad \in ADs, genOk \in BOOLEAN :
    \E m \in Range(out[Peer(p)]) :
        \/ Receive(p, m, ad, genOk)
        \/ ReceiveTampered(p, m, ad, genOk)

ForgedStep ==
    \E p \in Party :
    \E h \in [DH : ForgedDH(p), N : ForgedN(p), PN : ForgedN(p)] :
        ReceiveForged(p, h, "")

\* The sessions over a network that reorders, repeats, drops and corrupts.
Next == SendStep \/ ReceiveStep

Spec == Init /\ [][Next]_vars

\* The same, until a third party hands one of the sessions a message it made up.
NextForged == ~forged /\ (SendStep \/ ReceiveStep \/ ForgedStep)

SpecForged == Init /\ [][NextForged]_vars

(***************************************************************************)
(* Delivery scenarios: every message is handed to its addressee at most    *)
(* once, untouched, with the associated data it was sent with, and         *)
(* GenerateDH works.                                                       *)
(***************************************************************************)
Deliver(p, i) ==
    /\ i \in (1 .. Len(out[Peer(p)])) \ dlv[p]
    /\ Decrypt(p, out[Peer(p)][i], encs[Peer(p)][i].ad, TRUE)
    /\ dlv' = [dlv EXCEPT ![p] = @ \cup {i}]
    /\ UNCHANGED forged

\* In order: each direction is a FIFO channel.
DeliverNext(p) == Deliver(p, Cardinality(dlv[p]) + 1)

NextInOrder ==
    \/ \E p \in Party, plaintext \in Plaintexts, ad \in ADs : Send(p, plaintext, ad)
    \/ \E p \in Party : DeliverNext(p)

SpecInOrder == Init /\ [][NextInOrder]_vars

\* In order, over a line that may flip the low bit of header.N: the receiver
\* is handed the damaged message, and the sender's copy is delivered after.
TamperN(m) == [m EXCEPT !.Header.N = IF @ % 2 = 0 THEN @ + 1 ELSE @ - 1]

DeliverDamaged(p) ==
    LET i == Cardinality(dlv[p]) + 1
    IN  /\ i \in 1 .. Len(out[Peer(p)])
        /\ Decrypt(p, TamperN(out[Peer(p)][i]), encs[Peer(p)][i].ad, TRUE)
        /\ UNCHANGED <<dlv, forged>>

NextNoisy ==
    \/ \E p \in Party : Send(p, "hello", "")
    \/ \E p \in Party : DeliverNext(p)
    \/ \E p \in Party : DeliverDamaged(p)

SpecNoisy == Init /\ [][NextNoisy]_vars

\* In any order, with at most MaxSkip messages in one sending chain.
SendInChain(p, plaintext, ad) ==
    /\ sess[p].Ns < MaxSkip
    /\ Send(p, plaintext, ad)

NextAnyOrder ==
    \/ \E p \in Party, plaintext \in Plaintexts, ad \in ADs : SendInChain(p, plaintext, ad)
    \/ \E p \in Party, i \in 1 .. MaxSend : Deliver(p, i)

SpecAnyOrder == Init /\ [][NextAnyOrder]_vars

\* Every message delivered once, in any order, with its associated data, and
\* among the deliveries one message that a third party made up.
ForgeOnce(p, h) ==
    /\ ~forged
    /\ ReceiveForged(p, h, "")

NextOneForged ==
    \/ \E p \in Party : Send(p, "hello", "")
    \/ \E p \in Party, i \in 1 .. MaxSend : Deliver(p, i)
    \/ \E p \in Party :
       \E h \in [DH : ForgedDH(p), N : ForgedN(p), PN : ForgedN(p)] :
           ForgeOnce(p, h)

SpecOneForged == Init /\ [][NextOneForged]_vars

(***************************************************************************)
(* The claims.                                                             *)
(***************************************************************************)
Decrypted == last.op = "dec"
Failed == Decrypted /\ ~last.ok
Succeeded == Decrypted /\ last.ok
Keys(s) == DOMAIN s.MkSkipped
HeaderKey(m) == skippedKey(m.Header.DH, m.Header.N)

\* C1: a RatchetDecrypt call that returns an error leaves the live session
\* exactly as it was before the call: every scalar field and the whole of
\* MkSkipped.
C1_ErrorLeavesSessionUnchanged ==
    Failed => sess[last.p] = last.pre

\* C2: a message of the peer is decrypted successfully at most once: no
\* RatchetDecrypt call succeeds on a message an earlier call of the same
\* session has already succeeded on.
C2_DecryptedAtMostOnce ==
    Succeeded => ~last.dup

\* C3: once RatchetDecrypt has succeeded on the message with header (d, i),
\* the session holds no key for it, then and ever after: MkSkipped has no
\* entry at (d, i), and if d is the current DHr then Nr > i.
C3_NoKeyAfterDecrypt ==
    \A p \in Party : \A m \in done[p] :
        /\ HeaderKey(m) \notin Keys(sess[p])
        /\ m.Header.DH = sess[p].DHr => sess[p].Nr > m.Header.N

\* C6: a message that asks for more than MaxSkip keys in one chain
\* (header.N beyond Nr + MaxSkip in the current chain or beyond MaxSkip in a
\* new one, header.PN beyond Nr + MaxSkip when header.DH is a new key) is
\* rejected, and the session is the same before and after the call.
OverLimit(h, s) ==
    IF h.DH = s.DHr
    THEN h.N > s.Nr + s.MaxSkip
    ELSE h.PN > s.Nr + s.MaxSkip \/ h.N > s.MaxSkip

C6_SkipLimitRejectsUnchanged ==
    Decrypted /\ OverLimit(last.msg.Header, last.pre)
        => ~last.ok /\ sess[last.p] = last.pre

\* C7, as stated: the keys one RatchetDecrypt call stores in MkSkipped, those
\* of the skip to header.PN and those of the skip to header.N together, never
\* number more than MaxSkip.
C7_SkippedPerCallAtMostMaxSkip ==
    Decrypted => last.nPrev + last.nCur <= MaxSkip

\* C7, amended: each of the two skips of one RatchetDecrypt call stores at
\* most MaxSkip keys, so the call stores at most 2 * MaxSkip.
C7_SkippedPerChainAtMostMaxSkip ==
    Decrypted =>
        /\ last.nPrev <= last.pre.MaxSkip
        /\ last.nCur <= last.pre.MaxSkip
        /\ Cardinality(Keys(sess[last.p]) \ Keys(last.pre)) <= 2 * last.pre.MaxSkip

\* A call that stored MaxSkip keys of the previous chain and MaxSkip of the new.
C7_Witness ==
    /\ Decrypted /\ last.nPrev = MaxSkip /\ last.nCur = MaxSkip
    /\ Cardinality(Keys(sess[last.p]) \ Keys(last.pre)) = 2 * MaxSkip

\* C8: every entry (d, i) of MkSkipped has i strictly below the highest Nr
\* the live session reached in the receiving chain of peer key d.
C8_SkippedBelowHighestNr ==
    \A p \in Party : \A k \in Keys(sess[p]) : k[2] < maxNr[p][k[1]]

\* The plaintext the peer's RatchetEncrypt was given for message m.
Original(p, m) ==
    {encs[Peer(p)][i].plaintext : i \in {j \in 1 .. Len(out[Peer(p)]) : out[Peer(p)][j] = m}}

AllDelivered(p) == dlv[p] = 1 .. Len(out[Peer(p)])

\* C4: with at most MaxSkip messages in a sending chain, delivered in any
\* order, every RatchetDecrypt succeeds and returns the plaintext the message
\* was made from, and once all have been delivered MkSkipped is empty.
C4_AnyOrderAllDecrypt ==
    /\ Decrypted => last.ok /\ Original(last.p, last.msg) = {last.pt}
    /\ \A p \in Party : AllDelivered(p) => Keys(sess[p]) = {}

\* A full chain delivered last message first: the last delivery, of message
\* 0, is served from MkSkipped and empties it.
C4_Witness ==
    /\ Succeeded /\ last.err = "nil-skipped" /\ last.msg.Header.N = 0
    /\ Len(out[Peer(last.p)]) = MaxSkip
    /\ \A i \in 1 .. MaxSkip : out[Peer(last.p)][i].Header.DH = last.msg.Header.DH
    /\ AllDelivered(last.p)
    /\ Keys(last.pre) # {} /\ Keys(sess[last.p]) = {}

\* C5: in a conversation delivered in order, every RatchetDecrypt returns
\* the plaintext RatchetEncrypt was given, for every plaintext and
\* associated data, through every change of direction.
C5_RoundTripInOrder ==
    Decrypted => last.ok /\ Original(last.p, last.msg) = {last.pt}

\* A decrypt that took a DH ratchet step away from a peer key that was itself
\* installed by an earlier step or by WithRemoteKey.
C5_Witness ==
    /\ Succeeded /\ last.pt = "hi" /\ last.ad = "ad"
    /\ last.pre.DHr # ZeroKey /\ sess[last.p].DHr # last.pre.DHr

\* C9: if p sent message i, the peer decrypted it and then sent message k,
\* and p decrypted k and then sent message j, then message j carries another
\* header.DH than message i.
Replied(p, i, j) ==
    \E k \in 1 .. Len(out[Peer(p)]) :
        /\ out[p][i] \in encs[Peer(p)][k].seen
        /\ out[Peer(p)][k] \in encs[p][j].seen

C9_NewKeyAfterReply ==
    \A p \in Party : \A i, j \in 1 .. Len(out[p]) :
        Replied(p, i, j) => out[p][j].Header.DH # out[p][i].Header.DH

\* C10: each RatchetEncrypt produces one message, with header.N the Ns
\* before the call; the N of the messages of one sending chain count up from
\* 0 without gap or repeat, so no two messages of a session carry the same
\* (header.DH, header.N).
Earlier(p, i) == {j \in 1 .. (i - 1) : out[p][j].Header.DH = out[p][i].Header.DH}

C10_HeadersCountUp ==
    /\ last.op = "enc" =>
          /\ last.msg.Header.N = last.pre.Ns
          /\ out[last.p][Len(out[last.p])] = last.msg
    /\ \A p \in Party :
          /\ Len(out[p]) = Len(encs[p])
          /\ \A i \in 1 .. Len(out[p]) : out[p][i].Header.N = Cardinality(Earlier(p, i))

\* A session that sent a message, took a DH ratchet step and sent again: the
\* new chain starts at 0 under a new key, with PN the length of the old one.
C10_Witness ==
    /\ last.op = "enc" /\ Len(out[last.p]) = 2
    /\ last.msg.Header.N = 0 /\ last.msg.Header.PN = 1
    /\ out[last.p][1].Header.DH # last.msg.Header.DH

\* The associated data the peer's RatchetEncrypt was given for message m.
SentAD(p, m) ==
    {encs[Peer(p)][i].ad : i \in {j \in 1 .. Len(out[Peer(p)]) : out[Peer(p)][j] = m}}

Genuine(p, m) == m \in Range(out[Peer(p)])

\* C11: RatchetDecrypt of a message the peer's RatchetEncrypt produced, called
\* with other associated data than the peer gave, returns an error: when the
\* message key is taken from MkSkipped and when it is derived on the main path.
C11_WrongADFails ==
    Decrypted /\ Genuine(last.p, last.msg) /\ last.ad \notin SentAD(last.p, last.msg)
        => /\ ~last.ok
           /\ HeaderKey(last.msg) \in Keys(last.pre) => last.err = "skipped"

\* MkSkipped held the very key the message was sealed with, and the call
\* failed on the associated data alone.
C11_Witness ==
    /\ Failed /\ Genuine(last.p, last.msg) /\ last.ad \notin SentAD(last.p, last.msg)
    /\ HeaderKey(last.msg) \in Keys(last.pre)
    /\ last.pre.MkSkipped[HeaderKey(last.msg)] = last.msg.Ciphertext.mk
    /\ last.err = "skipped"

\* The index in out[Peer(p)] of a message handed to p.
IndexOf(p, m) == CHOOSE i \in 1 .. Len(out[Peer(p)]) : out[Peer(p)][i] = m

SentBeforeReceiving(p, i) == encs[p][i].seen = {}

\* C12: a message a session encrypted before it had received anything,
\* whether it is the initiator's, the responder's, or both sent that way,
\* is decrypted by the peer to its plaintext, and so is every message of the
\* conversation that follows.
C12_EitherSendsFirst ==
    /\ Decrypted /\ SentBeforeReceiving(Peer(last.p), IndexOf(last.p, last.msg))
           => last.ok /\ last.pt = encs[Peer(last.p)][IndexOf(last.p, last.msg)].plaintext
    /\ \A p \in Party : \A i \in dlv[p] : out[Peer(p)][i] \in done[p]

\* Both sent before either had received, each decrypted the other's first
\* message, and a message sent after that has been decrypted as well.
C12_Witness ==
    /\ \A p \in Party :
          /\ Len(out[p]) >= 1 /\ SentBeforeReceiving(p, 1)
          /\ out[p][1] \in done[Peer(p)]
    /\ Succeeded
    /\ ~SentBeforeReceiving(Peer(last.p), IndexOf(last.p, last.msg))

\* The chain key j kdf_ck steps after ck, and the message key of the step
\* after that.
RECURSIVE ChainKeyAfter(_, _)
ChainKeyAfter(ck, j) == IF j = 0 THEN ck ELSE ChainKeyAfter(KdfCK(ck).ck, j - 1)

MessageKeyAfter(ck, j) == KdfCK(ChainKeyAfter(ck, j)).mk

TookRatchetStep == Succeeded /\ last.err = "nil" /\ last.msg.Header.DH # last.pre.DHr

\* C13: a RatchetDecrypt that succeeds on a new header.DH with header.PN
\* beyond Nr leaves the keys of Nr .. header.PN-1 in MkSkipped, under the old
\* DHr and derived from the old CKr; a message of a chain the session has
\* left, delivered for the first time with a key for it in MkSkipped, is
\* decrypted to its plaintext from there.
C13_PreviousChainSkippedBeforeStep ==
    /\ TookRatchetStep =>
          \A i \in last.pre.Nr .. (last.msg.Header.PN - 1) :
              /\ skippedKey(last.pre.DHr, i) \in Keys(sess[last.p])
              /\ sess[last.p].MkSkipped[skippedKey(last.pre.DHr, i)]
                     = MessageKeyAfter(last.pre.CKr, i - last.pre.Nr)
    /\ /\ Decrypted /\ Genuine(last.p, last.msg) /\ ~last.dup
       /\ last.ad \in SentAD(last.p, last.msg)
       /\ last.msg.Header.DH # last.pre.DHr
       /\ HeaderKey(last.msg) \in Keys(last.pre)
       => /\ last.ok /\ last.err = "nil-skipped"
          /\ {last.pt} = Original(last.p, last.msg)

\* What a DH ratchet step leaves in the live session.
StepEffects ==
    /\ sess[last.p].PN = last.pre.Ns
    /\ sess[last.p].Ns = 0
    /\ sess[last.p].DHr = last.msg.Header.DH
    /\ sess[last.p].Nr = last.msg.Header.N + 1
    /\ sess[last.p].DHs # last.pre.DHs
    /\ sess[last.p].DHs = nextKey - 1
    /\ \A q \in Party : \A m \in Range(out[q]) : m.Header.DH # PublicKey(sess[last.p].DHs)

NoStepEffects ==
    /\ sess[last.p].PN = last.pre.PN
    /\ sess[last.p].Ns = last.pre.Ns
    /\ sess[last.p].DHr = last.pre.DHr
    /\ sess[last.p].DHs = last.pre.DHs
    /\ sess[last.p].RK = last.pre.RK
    /\ sess[last.p].CKs = last.pre.CKs

\* C14, as stated: every successful RatchetDecrypt of a message whose
\* header.DH differs from the DHr before the call leaves PN = the Ns before
\* the call, Ns = 0, DHr = header.DH, Nr = header.N + 1 and a new DHs; every
\* successful one with header.DH = DHr leaves PN, Ns, DHr, DHs, RK and CKs
\* as they were.
C14_NewKeyAlwaysSteps ==
    /\ Succeeded /\ last.msg.Header.DH # last.pre.DHr => StepEffects
    /\ Succeeded /\ last.msg.Header.DH = last.pre.DHr => NoStepEffects

\* C14, amended: the step is taken when the message has a new header.DH and
\* MkSkipped holds no key for its (header.DH, header.N); a message decrypted
\* with a key from MkSkipped, or with header.DH = DHr, leaves PN, Ns, DHr,
\* DHs, RK and CKs as they were.
C14_StepEffectsOnMainPath ==
    /\ /\ Succeeded /\ last.msg.Header.DH # last.pre.DHr
       /\ HeaderKey(last.msg) \notin Keys(last.pre)
       => StepEffects
    /\ /\ Succeeded
       /\ \/ last.msg.Header.DH = last.pre.DHr
          \/ HeaderKey(last.msg) \in Keys(last.pre)
       => NoStepEffects

\* A step taken by a session that had sent a message, on a message that was
\* not the first of its chain.
C14_Witness ==
    /\ TookRatchetStep /\ last.pre.Ns = 1 /\ last.msg.Header.N = 1
    /\ sess[last.p].PN = 1 /\ sess[last.p].Ns = 0 /\ sess[last.p].Nr = 2

(***************************************************************************)
(* The skipMessageKeys calls of RatchetDecrypt, observed one at a time:    *)
(* the state each is entered in, its argument, and the state and error it  *)
(* returns.  RatchetDecrypt of a message with header h for which MkSkipped *)
(* holds no key calls skipMessageKeys(h.PN) on the copy of the session and *)
(* then, if that returned nil, skipMessageKeys(h.N) on the copy as         *)
(* dhRatchet left it, when h.DH is a new key; skipMessageKeys(h.N) on the  *)
(* copy of the session otherwise.  An observation leaves the sessions as   *)
(* they are, so none is made from the state another has just been made     *)
(* from.                                                                   *)
(***************************************************************************)
SkipCalls(s, h, newPair) ==
    IF skippedKey(h.DH, h.N) \in DOMAIN s.MkSkipped THEN {}
    ELSE IF h.DH # s.DHr
    THEN LET sk == skipMessageKeys(s, h.PN)
         IN  {<<s, h.PN>>} \cup
             (IF sk.err THEN {} ELSE {<<dhRatchet(sk.s, h, newPair, TRUE).s, h.N>>})
    ELSE {<<s, h.N>>}

ObserveSkip(p, entry, until) ==
    LET r == skipMessageKeys(entry, until)
    IN  /\ last.op # "skip"
        /\ last' = Call("skip", p, NoMsg, "",
                        Returned(r.s, ~r.err, NoPlain, IF r.err THEN "skip" ELSE "nil", 0, r.n),
                        entry, FALSE)
                   @@ [until |-> until, post |-> r.s]
        /\ UNCHANGED <<sess, out, encs, done, maxNr, nextKey, dlv, forged>>

SkipStep ==
    \E p \in Party :
    \E c \in UNION {SkipCalls(sess[p], h, nextKey) :
                        h \in [DH : ForgedDH(p), N : ForgedN(p), PN : ForgedN(p)]} :
        ObserveSkip(p, c[1], c[2])

NextSkip == NextNoisy \/ SkipStep

SpecSkip == Init /\ [][NextSkip]_vars

SkipCalled == last.op = "skip"

Skipped(s, until) == {skippedKey(s.DHr, i) : i \in s.Nr .. (until - 1)}

\* C15, as stated: skipMessageKeys(until) fails, changing nothing, exactly
\* when Nr + MaxSkip < until; when it returns nil, Nr = until and exactly
\* until - Nr new entries, at (DHr, Nr) .. (DHr, until-1) for the Nr at
\* entry, have been added to MkSkipped.
C15_SkipReachesUntil ==
    SkipCalled =>
        /\ ~last.ok <=> last.pre.Nr + last.pre.MaxSkip < last.until
        /\ ~last.ok => last.post = last.pre
        /\ last.ok =>
              /\ last.post.Nr = last.until
              /\ Keys(last.post) \ Keys(last.pre) = Skipped(last.pre, last.until)
              /\ Cardinality(Keys(last.post) \ Keys(last.pre)) = last.until - last.pre.Nr

\* C15, amended: skipMessageKeys(until) fails, changing nothing, exactly when
\* Nr + MaxSkip < until; when it returns nil, Nr is the larger of until and
\* the Nr at entry, CKr has advanced by as many kdf_ck steps as Nr, and
\* MkSkipped is the map at entry with the successive message keys of the chain
\* written at (DHr, Nr) .. (DHr, until-1): none when until <= Nr, and over
\* whatever was at those keys; nothing else changes.
C15_SkipWritesUpToUntil ==
    SkipCalled =>
        /\ ~last.ok <=> last.pre.Nr + last.pre.MaxSkip < last.until
        /\ ~last.ok => last.post = last.pre
        /\ last.ok =>
              /\ last.post.Nr = Max(last.pre.Nr, last.until)
              /\ last.post.CKr = ChainKeyAfter(last.pre.CKr, last.post.Nr - last.pre.Nr)
              /\ Keys(last.post) = Keys(last.pre) \cup Skipped(last.pre, last.until)
              /\ \A k \in Keys(last.pre) \ Skipped(last.pre, last.until) :
                     last.post.MkSkipped[k] = last.pre.MkSkipped[k]
              /\ \A i \in last.pre.Nr .. (last.until - 1) :
                     last.post.MkSkipped[skippedKey(last.pre.DHr, i)]
                         = MessageKeyAfter(last.pre.CKr, i - last.pre.Nr)
              /\ [last.post EXCEPT !.Nr = last.pre.Nr, !.CKr = last.pre.CKr,
                                   !.MkSkipped = last.pre.MkSkipped] = last.pre

\* A call at the limit, until = Nr + MaxSkip, from a state that has received:
\* accepted, MaxSkip keys written.
C15_Witness ==
    /\ SkipCalled /\ last.ok /\ last.pre.Nr > 0
    /\ last.until = last.pre.Nr + last.pre.MaxSkip
    /\ last.post.Nr = last.until
    /\ Cardinality(Skipped(last.pre, last.until)) = MaxSkip

\* MkSkipped held a key for the header of the last call, and the AEAD did
\* not open the ciphertext under it.
StoredKeyFailed ==
    /\ Decrypted /\ HeaderKey(last.msg) \in Keys(last.pre)
    /\ ~DecryptOpens(last.pre.MkSkipped[HeaderKey(last.msg)], last.msg.Ciphertext,
                     EncodeWithAD(last.msg.Header, last.ad))

\* C16: when MkSkipped has an entry for (header.DH, header.N) and the AEAD
\* fails under the stored key, RatchetDecrypt returns an error with no chain
\* skip and no DH ratchet step, and the session and the entry are as before;
\* the peer's message with that header, delivered with its associated data
\* while the entry is there, is decrypted.
C16_StoredKeyFailureKeepsEntry ==
    /\ StoredKeyFailed =>
          /\ ~last.ok /\ last.err = "skipped"
          /\ last.nPrev = 0 /\ last.nCur = 0
          /\ sess[last.p] = last.pre
    /\ /\ Decrypted /\ Genuine(last.p, last.msg)
       /\ last.ad \in SentAD(last.p, last.msg)
       /\ HeaderKey(last.msg) \in Keys(last.pre)
       => /\ last.ok /\ {last.pt} = Original(last.p, last.msg)
          /\ HeaderKey(last.msg) \notin Keys(sess[last.p])

\* C17: a RatchetDecrypt that succeeds with a key found in MkSkipped changes
\* the session in one way only: the entry at (header.DH, header.N) is gone.
\* RK, DHs, DHr, CKs, CKr, Ns, Nr, PN, MaxSkip and every other entry of
\* MkSkipped are as before, whether or not header.DH is the current DHr.
C17_SkippedKeySuccessRemovesOneEntry ==
    Succeeded /\ HeaderKey(last.msg) \in Keys(last.pre) =>
        /\ last.err = "nil-skipped"
        /\ sess[last.p] = [last.pre EXCEPT !.MkSkipped = MapDelete(@, HeaderKey(last.msg))]
        /\ Keys(sess[last.p]) = Keys(last.pre) \ {HeaderKey(last.msg)}
        /\ \A k \in Keys(sess[last.p]) : sess[last.p].MkSkipped[k] = last.pre.MkSkipped[k]

\* A message of a chain the session has left is decrypted from MkSkipped
\* while another entry is there, and that entry stays.
C17_Witness ==
    /\ Succeeded /\ last.err = "nil-skipped"
    /\ last.msg.Header.DH # last.pre.DHr
    /\ Cardinality(Keys(last.pre)) = 2
    /\ Cardinality(Keys(sess[last.p])) = 1

\* A step that changes p's DHr is a successful RatchetDecrypt by p of a
\* message with a non-zero header.DH other than DHr, and installs it.
DHrChangesOnlyByStep(p) ==
    sess'[p].DHr # sess[p].DHr =>
        /\ last'.op = "dec" /\ last'.p = p /\ last'.ok
        /\ last'.pre = sess[p]
        /\ last'.msg.Header.DH # sess[p].DHr
        /\ last'.msg.Header.DH # ZeroKey
        /\ sess'[p].DHr = last'.msg.Header.DH

\* C18: the responder starts with DHr all-zero; DHr changes only through a
\* successful RatchetDecrypt of a message whose header.DH is non-zero and
\* differs from DHr, never through RatchetEncrypt or a failed RatchetDecrypt,
\* and is then that header.DH: once non-zero, never zero again.
C18_DHrChangesOnlyByStep ==
    /\ sess["B"].DHr = ZeroKey /\ sess["A"].DHr # ZeroKey
    /\ [][\A p \in Party : DHrChangesOnlyByStep(p)]_vars

\* The responder has left the all-zero DHr and now takes a second step.
C18_Witness ==
    /\ TookRatchetStep /\ last.p = "B"
    /\ last.pre.DHr # ZeroKey
    /\ sess["B"].DHr = last.msg.Header.DH /\ sess["B"].DHr # last.pre.DHr

\* C19: RatchetEncrypt advances CKs by one kdf_ck step and Ns by 1 and
\* changes nothing else of the session (RK, DHs, DHr, CKr, Nr, PN, MaxSkip,
\* MkSkipped); the header is DH = the public key of DHs, N = the Ns before
\* the call, PN = PN, and the ciphertext is sealed with the message key of
\* that kdf_ck step over the header and the associated data.
C19_EncryptChangesSendingChainOnly ==
    last.op = "enc" =>
        /\ sess[last.p] = [last.pre EXCEPT !.CKs = KdfCK(last.pre.CKs).ck, !.Ns = last.pre.Ns + 1]
        /\ last.msg.Header = [DH |-> PublicKey(last.pre.DHs), N |-> last.pre.Ns,
                              PN |-> last.pre.PN]
        /\ last.msg.Ciphertext = Encrypt(KdfCK(last.pre.CKs).mk, last.pt,
                                         EncodeWithAD(last.msg.Header, last.ad))
        /\ \A f \in {"RK", "DHs", "DHr", "CKr", "Nr", "PN", "MaxSkip", "MkSkipped"} :
               sess[last.p][f] = last.pre[f]

\* An encrypt by a session that has taken a DH ratchet step and holds a
\* skipped key.
C19_Witness ==
    /\ last.op = "enc"
    /\ Keys(last.pre) # {} /\ last.pre.Nr > 0
    /\ last.pre.DHs \notin {InitKeyA, InitKeyB}
    /\ sess[last.p].Ns = 1 /\ Keys(sess[last.p]) = Keys(last.pre)

\* The last message p has sent in its current sending chain has been
\* decrypted by the peer.
PeerHasLatest(p) ==
    /\ sess[p].Ns > 0
    /\ \E m \in done[Peer(p)] :
          /\ m.Header.DH = PublicKey(sess[p].DHs)
          /\ m.Header.N = sess[p].Ns - 1

ReceivingInStep(p) ==
    /\ sess[Peer(p)].DHr = PublicKey(sess[p].DHs)
    /\ sess[Peer(p)].CKr = sess[p].CKs
    /\ sess[Peer(p)].Nr = sess[p].Ns

\* Messages of p with a header.DH the peer has not installed, not yet
\* decrypted by the peer.
NewKeyUndelivered(p) ==
    {m \in Range(out[p]) \ done[Peer(p)] : m.Header.DH # sess[Peer(p)].DHr}

\* C20, as stated: whenever the peer has decrypted the last message of p's
\* current sending chain, the peer's DHr, CKr and Nr are p's DHs public key,
\* CKs and Ns; and whenever no message with a new header.DH is undelivered,
\* the two sessions hold the same RK.
C20_SameRootKey ==
    /\ \A p \in Party : PeerHasLatest(p) => ReceivingInStep(p)
    /\ (\A p \in Party : NewKeyUndelivered(p) = {}) => sess["A"].RK = sess["B"].RK

\* C20, amended: whenever the peer has decrypted the last message of p's
\* current sending chain, the peer's DHr, CKr and Nr are p's DHs public key,
\* CKs and Ns; the two sessions never hold the same RK: the session whose
\* DHr is the other's current DHs public key, which is the initiator at the
\* start and after that the one that took the last DH ratchet step, is one
\* kdf_rk step ahead, with RK = kdf_rk(the other's RK, DH(DHs, DHr)).
C20_RootKeyOneStepAhead ==
    /\ \A p \in Party : PeerHasLatest(p) => ReceivingInStep(p)
    /\ sess["A"].RK # sess["B"].RK
    /\ \E p \in Party :
          /\ sess[p].DHr = PublicKey(sess[Peer(p)].DHs)
          /\ sess[Peer(p)].DHr # PublicKey(sess[p].DHs)
          /\ sess[p].RK = KdfRK(sess[Peer(p)].RK, DH(sess[p].DHs, sess[p].DHr)).rk

\* Each session has taken a DH ratchet step, and the reply sent after the
\* second step has been decrypted.
C20_Witness ==
    /\ Succeeded /\ last.err = "nil"
    /\ PeerHasLatest(Peer(last.p)) /\ ReceivingInStep(Peer(last.p))
    /\ sess[Peer(last.p)].DHs \notin {InitKeyA, InitKeyB}
    /\ sess[last.p].DHs \notin {InitKeyA, InitKeyB}
    /\ \A q \in Party : NewKeyUndelivered(q) = {}

====
